---------------------------- MODULE Spec2Model ----------------------------
(***************************************************************************)
(* Model of the Chat-with-PDF backend:                                     *)
(*   - backend/main.py : module load (Settings), the QueryRequest model    *)
(*     and the POST /query handler query_llm;                              *)
(*   - backend/eval.py : evaluate() and the sweep of main().               *)
(***************************************************************************)
EXTENDS Integers, Sequences, FiniteSets, TLC

VARIABLES
    env,        \* the process environment / .env file read by Settings()
    dirState,   \* what the file system holds at settings.DOCUMENT_DIR
    phase,      \* "loading" | "failed" | "serving": module load of main.py
    settings,   \* the module-level settings object (NoSettings until loaded)
    clock,      \* time.perf_counter(), a monotonic process-wide clock
    slot,       \* per in-flight request: the handler's frame and its response
    hpc,        \* eval.py: where main() is
    ci,         \* main(): index of cs in the chunk-size sweep
    qi,         \* main(): index of tq in TEST_QUERIES
    results,    \* main(): the results list
    inFlight,   \* requests.post calls that have not returned
    issued,     \* the (chunk_size, question) pairs posted so far, in order
    lastResp,   \* what the endpoint answered to the last call
    outFile     \* the content of eval_results_<ts>.json

svars == <<env, dirState, phase, settings, clock, slot>>
hvars == <<hpc, ci, qi, results, inFlight, issued, lastResp, outFile>>
vars == <<svars, hvars>>

-----------------------------------------------------------------------------
(* Bounds of the model *)

MaxRequests == 2     \* requests the framework serves concurrently
MaxClock == 1        \* the clock stops advancing here

Requests == 1..MaxRequests

-----------------------------------------------------------------------------
(* Settings (main.py 16-34) *)

DefaultMaxChunkSize == 2048
DefaultMaxChunkOverlap == 1024
DefaultChunkSize == 512
DefaultChunkOverlap == 50

ModelLiteral == {"gpt-3.5-turbo", "gpt-4"}

\* An environment maps the variable names that are set to their raw text.
\* Integers settings are given as [int |-> n] when the text parses as an
\* integer and as [text |-> s] when it does not.
Has(f, k) == k \in DOMAIN f

IntText(n) == [int |-> n]
BadText == [text |-> "abc"]

Envs ==
    { \* every setting left to its default, credential present
      [OPENAI_API_KEY |-> "sk-key"],
      \* credential absent
      [DOCUMENT_DIR |-> "docs"],
      \* credential present but empty: still a str, accepted
      [OPENAI_API_KEY |-> ""],
      \* custom valid values
      [OPENAI_API_KEY |-> "sk-key", OPENAI_MODEL_NAME |-> "gpt-4",
       DOCUMENT_DIR |-> "docs", MAX_CHUNK_SIZE |-> IntText(8),
       MAX_CHUNK_OVERLAP |-> IntText(4)],
      \* model name outside the Literal
      [OPENAI_API_KEY |-> "sk-key", OPENAI_MODEL_NAME |-> "davinci"],
      \* malformed integers
      [OPENAI_API_KEY |-> "sk-key", MAX_CHUNK_SIZE |-> BadText],
      [OPENAI_API_KEY |-> "sk-key", MAX_CHUNK_OVERLAP |-> BadText] }

IsIntText(v) == Has(v, "int")

\* variant: OPENAI_MODEL_NAME typed str, any name accepted
SettingsErrorsAnyModel(e) ==
    {k \in {"OPENAI_API_KEY"} : ~Has(e, k)}
    \cup {k \in {"MAX_CHUNK_SIZE", "MAX_CHUNK_OVERLAP"} :
             Has(e, k) /\ ~IsIntText(e[k])}

\* pydantic's validation of Settings(): the errors it collects
SettingsErrors(e) ==
    {k \in {"OPENAI_API_KEY"} : ~Has(e, k)}
    \cup {k \in {"OPENAI_MODEL_NAME"} : Has(e, k) /\ e[k] \notin ModelLiteral}
    \cup {k \in {"MAX_CHUNK_SIZE", "MAX_CHUNK_OVERLAP"} :
             Has(e, k) /\ ~IsIntText(e[k])}

\* Settings(): field values, defaults where the environment is silent
LoadSettings(e) ==
    [OPENAI_API_KEY |-> e.OPENAI_API_KEY,
     OPENAI_MODEL_NAME |->
        IF Has(e, "OPENAI_MODEL_NAME") THEN e.OPENAI_MODEL_NAME
        ELSE "gpt-3.5-turbo",
     DOCUMENT_DIR |->
        IF Has(e, "DOCUMENT_DIR") THEN e.DOCUMENT_DIR ELSE "documents",
     MAX_CHUNK_SIZE |->
        IF Has(e, "MAX_CHUNK_SIZE") THEN e.MAX_CHUNK_SIZE.int
        ELSE DefaultMaxChunkSize,
     MAX_CHUNK_OVERLAP |->
        IF Has(e, "MAX_CHUNK_OVERLAP") THEN e.MAX_CHUNK_OVERLAP.int
        ELSE DefaultMaxChunkOverlap]

NoSettings == [unset |-> TRUE]


-----------------------------------------------------------------------------
(* The file system at settings.DOCUMENT_DIR *)

\* "missing"    : no such path
\* "unreadable" : a directory that exists and cannot be listed
\* "ok"         : a directory that can be listed
DirStates == {"missing", "unreadable", "ok"}

\* variant: the directory check passes whatever the path holds
IsDirUnchecked(d) == d \in {"missing", "unreadable", "ok"}

\* os.path.isdir(doc_dir), main.py 97: true of every existing directory
IsDir(d) == d \in {"unreadable", "ok"}

-----------------------------------------------------------------------------
(* QueryRequest (main.py 64-81) *)

\* A request body maps the JSON keys it carries to their values.

\* bodies that validate under the default settings: one that leaves every
\* optional field out, one that sets them all (out of range once
\* MAX_CHUNK_SIZE is 8 and MAX_CHUNK_OVERLAP is 4)
AcceptableBodies ==
    {[question |-> "q"],
     [question |-> "q", chunk_size |-> 9, chunk_overlap |-> 5,
      model |-> "gpt-4"]}

\* bodies with one field out of its constraint under every settings
FaultyBodies ==
    {[chunk_size |-> 1],
     [question |-> ""],
     [question |-> "q", chunk_size |-> 0],
     [question |-> "q", chunk_size |-> 2049],
     [question |-> "q", chunk_overlap |-> -1],
     [question |-> "q", chunk_overlap |-> 1025],
     [question |-> "q", model |-> "davinci"]}

Bodies == AcceptableBodies \cup FaultyBodies

StrLen(s) == IF s = "" THEN 0 ELSE 1

\* the fields of body b that fail QueryRequest's validation under settings s
QuestionErrors(b) ==
    {k \in {"question"} : ~Has(b, k) \/ StrLen(b[k]) < 1}

\* variant: the upper bound le=settings.MAX_CHUNK_SIZE is left out
ChunkSizeErrorsNoUpper(b, s) ==
    {k \in {"chunk_size"} : Has(b, k) /\ b[k] < 1}

ChunkSizeErrors(b, s) ==
    {k \in {"chunk_size"} : Has(b, k) /\ (b[k] < 1 \/ b[k] > s.MAX_CHUNK_SIZE)}

ChunkOverlapErrors(b, s) ==
    {k \in {"chunk_overlap"} :
        Has(b, k) /\ (b[k] < 0 \/ b[k] > s.MAX_CHUNK_OVERLAP)}

ModelErrors(b) ==
    {k \in {"model"} : Has(b, k) /\ b[k] \notin ModelLiteral}

ValidationErrors(b, s) ==
    QuestionErrors(b) \cup ChunkSizeErrors(b, s)
        \cup ChunkOverlapErrors(b, s) \cup ModelErrors(b)

\* the QueryRequest object built from a body that validates
ParseRequest(b, s) ==
    [question |-> b.question,
     chunk_size |->
        IF Has(b, "chunk_size") THEN b.chunk_size ELSE DefaultChunkSize,
     chunk_overlap |->
        IF Has(b, "chunk_overlap") THEN b.chunk_overlap
        ELSE DefaultChunkOverlap,
     model |-> IF Has(b, "model") THEN b.model ELSE s.OPENAI_MODEL_NAME]

-----------------------------------------------------------------------------
(* query_llm (main.py 90-126) *)

\* what the collaborators may raise; the text is the exception's message
LoadCauses == {"PermissionError: /srv/docs", "ValueError: No files found"}
PipelineCauses == {"AuthenticationError: sk-key", "RateLimitError"}
Answers == {"", "an answer"}

NoCalls == [load |-> 0, index |-> 0, gen |-> 0]

Idle == [pc |-> "idle"]

\* HTTPException(status, detail) as the framework renders it
HTTPError(status, detail) == [status |-> status, detail |-> detail]

\* the framework's answer to a body that fails validation
Unprocessable(errs) == [status |-> 422, fields |-> errs]

\* QueryResponse(answer, latency) rendered with status 200
QueryResponse(answer, latency) ==
    [status |-> 200, answer |-> answer, latency |-> latency]

\* the handler's locals are gone; what stays is what was received, what was
\* called and logged for it, and what is sent back
Respond(f, resp) ==
    [pc |-> "responded", resp |-> resp]
        @@ [k \in DOMAIN f \ {"pc", "t0", "documents", "index"} |-> f[k]]

LogLine(level, msg, detail) == [level |-> level, msg |-> msg, detail |-> detail]

Advance(c) == {t \in c..(c + 1) : t <= MaxClock}

\* the evaluation script is not running
HarnessOff ==
    /\ hpc = "off"
    /\ ci = 1
    /\ qi = 1
    /\ results = <<>>
    /\ inFlight = 0
    /\ issued = <<>>
    /\ lastResp = [kind |-> "none"]
    /\ outFile = [written |-> FALSE]

Init ==
    /\ env \in Envs
    /\ dirState \in DirStates
    /\ phase = "loading"
    /\ settings = NoSettings
    /\ clock = 0
    /\ slot = [r \in Requests |-> Idle]
    /\ HarnessOff

\* main.py 29-34 and 48: settings = Settings(), or RuntimeError and no app
LoadModule ==
    /\ phase = "loading"
    /\ IF SettingsErrors(env) = {}
       THEN /\ settings' = LoadSettings(env)
            /\ env' = [OPENAI_API_KEY |-> LoadSettings(env).OPENAI_API_KEY] @@ env
            /\ phase' = "serving"
       ELSE /\ phase' = "failed"
            /\ UNCHANGED <<settings, env>>
    /\ UNCHANGED <<dirState, clock, slot>>
    /\ UNCHANGED hvars

\* the framework validates the body; query_llm starts (lines 92-93) only
\* for a body that validates
Receive(r, b) ==
    /\ phase = "serving"
    /\ slot[r].pc = "idle"
    /\ LET errs == ValidationErrors(b, settings) IN
       IF errs # {}
       THEN slot' = [slot EXCEPT ![r] =
                [pc |-> "responded", body |-> b, calls |-> NoCalls,
                 log |-> <<>>, resp |-> Unprocessable(errs)]]
       ELSE slot' = [slot EXCEPT ![r] =
                [pc |-> "check_dir", body |-> b,
                 request |-> ParseRequest(b, settings),
                 calls |-> NoCalls,
                 log |-> <<LogLine("INFO", "Incoming query", b.question)>>,
                 t0 |-> clock]]
    /\ UNCHANGED <<env, dirState, phase, settings, clock>>
    /\ UNCHANGED hvars

\* lines 98-99
DirError(f, doc_dir) ==
    Respond([f EXCEPT !.log = Append(@,
                 LogLine("ERROR", "Document directory not found", doc_dir))],
            HTTPError(500, "Document directory not found"))

\* lines 96-99
CheckDir(r) ==
    /\ slot[r].pc = "check_dir"
    /\ LET f == slot[r] IN
       IF ~IsDir(dirState)
       THEN slot' = [slot EXCEPT ![r] = DirError(f, settings.DOCUMENT_DIR)]
       ELSE slot' = [slot EXCEPT ![r] = [f EXCEPT !.pc = "load"]]
    /\ UNCHANGED <<env, dirState, phase, settings, clock>>
    /\ UNCHANGED hvars

\* lines 101-105: SimpleDirectoryReader(doc_dir).load_data() returns
LoadOk(r) ==
    /\ slot[r].pc = "load"
    /\ dirState = "ok"
    /\ clock' \in Advance(clock)
    /\ slot' = [slot EXCEPT ![r] =
            [@ EXCEPT !.pc = "index", !.calls.load = @ + 1]
                @@ [documents |-> settings.DOCUMENT_DIR]]
    /\ UNCHANGED <<env, dirState, phase, settings>>
    /\ UNCHANGED hvars

\* lines 103-105: except Exception as e
LoadError(f, cause) ==
    Respond([f EXCEPT !.log = Append(@,
                 LogLine("ERROR", "Failed to load documents", cause))],
            HTTPError(500, "Could not read documents")) @@ [exc |-> cause]

\* lines 101-105: it raises
LoadFail(r, cause) ==
    /\ slot[r].pc = "load"
    /\ clock' \in Advance(clock)
    /\ slot' = [slot EXCEPT ![r] =
            LoadError([@ EXCEPT !.calls.load = @ + 1], cause)]
    /\ UNCHANGED <<env, dirState, phase, settings>>
    /\ UNCHANGED hvars

\* variant: the index built with the default chunking, not the request's
NewIndexDefaults(req, docs) ==
    [chunk_size |-> DefaultChunkSize, chunk_overlap |-> DefaultChunkOverlap,
     model |-> req.model, documents |-> docs]

\* lines 109-116: the index this request builds
NewIndex(req, docs) ==
    [chunk_size |-> req.chunk_size, chunk_overlap |-> req.chunk_overlap,
     model |-> req.model, documents |-> docs]

\* variant: the handler puts str(e) in the response
PipelineErrorLeaky(f, cause) ==
    Respond([f EXCEPT !.log = Append(@,
                 LogLine("ERROR", "LLM/RAG pipeline error", cause))],
            HTTPError(500, cause)) @@ [exc |-> cause]

\* lines 119-121: except Exception as e
PipelineError(f, cause) ==
    Respond([f EXCEPT !.log = Append(@,
                 LogLine("ERROR", "LLM/RAG pipeline error", cause))],
            HTTPError(500, "Failed to generate answer")) @@ [exc |-> cause]

\* lines 109-116 succeed
IndexOk(r) ==
    /\ slot[r].pc = "index"
    /\ clock' \in Advance(clock)
    /\ slot' = [slot EXCEPT ![r] =
            [@ EXCEPT !.pc = "query", !.calls.index = @ + 1]
                @@ [index |-> NewIndex(slot[r].request, slot[r].documents)]]
    /\ UNCHANGED <<env, dirState, phase, settings>>
    /\ UNCHANGED hvars

\* lines 109-116 raise
IndexFail(r, cause) ==
    /\ slot[r].pc = "index"
    /\ clock' \in Advance(clock)
    /\ slot' = [slot EXCEPT ![r] =
            PipelineError([@ EXCEPT !.calls.index = @ + 1], cause)]
    /\ UNCHANGED <<env, dirState, phase, settings>>
    /\ UNCHANGED hvars

\* variant: the operands of line 123 swapped
LatencyReversed(t0, now) == t0 - now

\* line 123
Latency(t0, now) == now - t0

\* lines 117-126: the query returns, the handler answers
QueryOk(r, text) ==
    /\ slot[r].pc = "query"
    /\ clock' \in Advance(clock)
    /\ LET latency == Latency(slot[r].t0, clock') IN
       slot' = [slot EXCEPT ![r] =
            Respond([@ EXCEPT !.calls.gen = @ + 1,
                              !.log = Append(@,
                                 LogLine("INFO", "Answered in", ""))],
                    QueryResponse(text, latency))]
    /\ UNCHANGED <<env, dirState, phase, settings>>
    /\ UNCHANGED hvars

\* lines 117-121: the query raises
QueryFail(r, cause) ==
    /\ slot[r].pc = "query"
    /\ clock' \in Advance(clock)
    /\ slot' = [slot EXCEPT ![r] =
            PipelineError([@ EXCEPT !.calls.gen = @ + 1], cause)]
    /\ UNCHANGED <<env, dirState, phase, settings>>
    /\ UNCHANGED hvars

\* the response is sent and the handler's frame is gone
Release(r) ==
    /\ slot[r].pc = "responded"
    /\ slot' = [slot EXCEPT ![r] = Idle]
    /\ UNCHANGED <<env, dirState, phase, settings, clock>>
    /\ UNCHANGED hvars

Next ==
    \/ LoadModule
    \/ \E r \in Requests, b \in Bodies : Receive(r, b)
    \/ \E r \in Requests : CheckDir(r)
    \/ \E r \in Requests : LoadOk(r)
    \/ \E r \in Requests, c \in LoadCauses : LoadFail(r, c)
    \/ \E r \in Requests : IndexOk(r)
    \/ \E r \in Requests, c \in PipelineCauses : IndexFail(r, c)
    \/ \E r \in Requests, a \in Answers : QueryOk(r, a)
    \/ \E r \in Requests, c \in PipelineCauses : QueryFail(r, c)
    \/ \E r \in Requests : Release(r)

Spec == Init /\ [][Next]_vars

-----------------------------------------------------------------------------
(* Properties of the Query Service *)

Handled(r) == Has(slot[r], "request")
Responded(r) == slot[r].pc = "responded"
ClientError(resp) == resp.status \in 400..499

InFlight(r) == slot[r].pc # "idle"

\* the constraints of the request model, as the interface states them
Violates(b) ==
    \/ ~Has(b, "question")
    \/ b.question = ""
    \/ Has(b, "chunk_size")
         /\ (b.chunk_size < 1 \/ b.chunk_size > settings.MAX_CHUNK_SIZE)
    \/ Has(b, "chunk_overlap")
         /\ (b.chunk_overlap < 0 \/ b.chunk_overlap > settings.MAX_CHUNK_OVERLAP)
    \/ Has(b, "model") /\ b.model \notin {"gpt-3.5-turbo", "gpt-4"}

\* C1: a request whose body violates a constraint of the request model is
\* answered with a client-error status and never reaches query_llm: its
\* document-load, index-build and generation counters are zero.
C1_InvalidRejectedBeforeAnyCall ==
    \A r \in Requests :
        (InFlight(r) /\ Violates(slot[r].body)) =>
            /\ Responded(r)
            /\ ClientError(slot[r].resp)
            /\ slot[r].calls = NoCalls
            /\ ~Handled(r)

C1_Witness ==
    \E r \in Requests :
        /\ Responded(r)
        /\ Violates(slot[r].body)
        /\ slot[r].resp.status = 422
        /\ "chunk_size" \in slot[r].resp.fields
        /\ slot[r].calls = NoCalls

\* C2: a request that violates no constraint reaches the handler, and the
\* handler ends either with a 200 response carrying a text answer and a
\* latency >= 0, or with status 500; never with a client error.
C2_ValidEndsInSuccessOrServerError ==
    \A r \in Requests :
        (InFlight(r) /\ ~Violates(slot[r].body)) =>
            /\ Handled(r)
            /\ Responded(r) =>
                \/ /\ slot[r].resp.status = 200
                   /\ slot[r].resp.answer \in Answers
                   /\ slot[r].resp.latency >= 0
                \/ /\ slot[r].resp.status = 500
                   /\ ~Has(slot[r].resp, "answer")

C2_Witness ==
    \E r \in Requests :
        /\ Responded(r)
        /\ ~Violates(slot[r].body)
        /\ slot[r].resp.status = 200
        /\ slot[r].resp.latency > 0

\* C5 as stated: a document directory that does not exist or is not
\* readable ends the call with 500 "Document directory not found" and
\* without any call to the loader, the index build or the generation.
C5_MissingOrUnreadableNoCall ==
    \A r \in Requests :
        (Handled(r) /\ dirState \in {"missing", "unreadable"}) =>
            /\ slot[r].calls = NoCalls
            /\ Responded(r) =>
                slot[r].resp = HTTPError(500, "Document directory not found")

\* C5 amended: a path that is no directory ends the call with
\* 500 "Document directory not found" and without any external call; a
\* directory that exists and cannot be read passes the check, the loader is
\* called, and the call ends with 500 "Could not read documents".
C5_MissingDirNoCall ==
    \A r \in Requests :
        /\ (Handled(r) /\ dirState = "missing") =>
            /\ slot[r].calls = NoCalls
            /\ slot[r].pc \in {"check_dir", "responded"}
            /\ Responded(r) =>
                slot[r].resp = HTTPError(500, "Document directory not found")
        /\ (Handled(r) /\ dirState = "unreadable" /\ Responded(r)) =>
            /\ slot[r].calls = [load |-> 1, index |-> 0, gen |-> 0]
            /\ slot[r].resp = HTTPError(500, "Could not read documents")

C5_Witness ==
    \E r \in Requests :
        /\ Handled(r) /\ Responded(r)
        /\ dirState = "missing"
        /\ slot[r].resp.status = 500

\* the stage at which a handled request failed
FailedStage(r) ==
    IF slot[r].calls = NoCalls THEN "directory"
    ELSE IF slot[r].calls.index = 0 THEN "load"
    ELSE "pipeline"

ServerFailed(r) ==
    Handled(r) /\ Responded(r) /\ slot[r].resp.status = 500

GenericMessages ==
    {"Document directory not found", "Could not read documents",
     "Failed to generate answer"}

\* C6: two requests that fail at the same stage get the same status and body
\* whatever was raised; the body is one of the three fixed messages and
\* carries no exception text; the exception is in the request's log.
C6_ServerErrorsOpaque ==
    /\ \A r1, r2 \in Requests :
          (ServerFailed(r1) /\ ServerFailed(r2)
              /\ FailedStage(r1) = FailedStage(r2)) =>
                slot[r1].resp = slot[r2].resp
    /\ \A r \in Requests : ServerFailed(r) =>
          /\ DOMAIN slot[r].resp = {"status", "detail"}
          /\ slot[r].resp.detail \in GenericMessages
          /\ slot[r].resp.detail \notin LoadCauses \cup PipelineCauses
          /\ slot[r].log[Len(slot[r].log)].level = "ERROR"
          /\ Has(slot[r], "exc") =>
                slot[r].log[Len(slot[r].log)].detail = slot[r].exc

C6_Witness ==
    \E r1, r2 \in Requests :
        /\ ServerFailed(r1) /\ ServerFailed(r2)
        /\ FailedStage(r1) = "pipeline" /\ FailedStage(r2) = "pipeline"
        /\ slot[r1].exc # slot[r2].exc

\* what the configuration must satisfy for the service to start
ConfigOk(e) ==
    /\ Has(e, "OPENAI_API_KEY")
    /\ Has(e, "OPENAI_MODEL_NAME") =>
          e.OPENAI_MODEL_NAME \in {"gpt-3.5-turbo", "gpt-4"}
    /\ Has(e, "MAX_CHUNK_SIZE") => Has(e.MAX_CHUNK_SIZE, "int")
    /\ Has(e, "MAX_CHUNK_OVERLAP") => Has(e.MAX_CHUNK_OVERLAP, "int")

\* C7: with the credential absent or a setting malformed the module load
\* fails and no request is ever handled; while a request is in flight the
\* configuration is valid and the settings are the values loaded at startup,
\* which no step changes once the service is up.
C7_ConfigErrorFatalAtStartup ==
    /\ [](\A r \in Requests : InFlight(r) =>
            /\ phase = "serving"
            /\ ConfigOk(env)
            /\ settings # NoSettings
            /\ settings.OPENAI_MODEL_NAME \in {"gpt-3.5-turbo", "gpt-4"}
            /\ settings.OPENAI_API_KEY = env.OPENAI_API_KEY)
    /\ [](~ConfigOk(env) =>
            /\ phase \in {"loading", "failed"}
            /\ settings = NoSettings)
    /\ [][phase = "serving" => settings' = settings /\ phase' = phase]_vars

C7_Witness ==
    /\ phase = "failed"
    /\ ~Has(env, "OPENAI_API_KEY")

\* C10: each request builds its index from its own chunk_size, chunk_overlap
\* and model; a step of one request changes no other request's frame and
\* never the settings; and the response of a request is decided by its own
\* calls: the directory check, its own load, its own index build and query.
C10_RequestsIndependent ==
    /\ [](\A r \in Requests :
            /\ Has(slot[r], "index") =>
                /\ slot[r].index.chunk_size = slot[r].request.chunk_size
                /\ slot[r].index.chunk_overlap = slot[r].request.chunk_overlap
                /\ slot[r].index.model = slot[r].request.model
            /\ (Handled(r) /\ Responded(r)) =>
                /\ slot[r].calls = NoCalls <=>
                      slot[r].resp = HTTPError(500, "Document directory not found")
                /\ slot[r].calls = NoCalls <=> ~IsDir(dirState)
                /\ slot[r].calls = [load |-> 1, index |-> 0, gen |-> 0] <=>
                      slot[r].resp = HTTPError(500, "Could not read documents")
                /\ (slot[r].calls.index = 1 /\ Has(slot[r], "exc")) <=>
                      slot[r].resp = HTTPError(500, "Failed to generate answer")
                /\ slot[r].calls = [load |-> 1, index |-> 1, gen |-> 1]
                      /\ ~Has(slot[r], "exc") <=> slot[r].resp.status = 200)
    /\ [][\A r1, r2 \in Requests :
            (r1 # r2 /\ slot'[r1] # slot[r1]) =>
                slot'[r2] = slot[r2] /\ settings' = settings]_vars

C10_Witness ==
    \E r1, r2 \in Requests :
        /\ r1 # r2
        /\ Has(slot[r1], "index") /\ Has(slot[r2], "index")
        /\ slot[r1].index.chunk_size # slot[r2].index.chunk_size
        /\ slot[r1].index.model # slot[r2].index.model

-----------------------------------------------------------------------------
(* Evaluation harness (eval.py) *)

\* Text is a sequence of characters; JSON values carry their type.
Str(t) == [str |-> t]
Num(n) == [num |-> n]
None == [none |-> TRUE]
IsStr(v) == Has(v, "str")

EmptyText == <<>>
TextAB == <<"a", " ", "b">>
TextBA == <<"b", " ", "a">>
TextC == <<"c">>

\* eval.py 28-37
TEST_QUERIES ==
    <<[question |-> "Q1", expected |-> TextAB],
      [question |-> "Q2", expected |-> TextBA]>>

\* eval.py 80
ChunkSizeSweep == <<256, 512, 1024>>

\* str.split(): the maximal runs of non-space characters, in order
RECURSIVE SplitFrom(_, _, _)
SplitFrom(t, i, word) ==
    IF i > Len(t)
    THEN IF word = <<>> THEN <<>> ELSE <<word>>
    ELSE IF t[i] = " "
         THEN IF word = <<>> THEN SplitFrom(t, i + 1, <<>>)
              ELSE <<word>> \o SplitFrom(t, i + 1, <<>>)
         ELSE SplitFrom(t, i + 1, Append(word, t[i]))

Split(t) == SplitFrom(t, 1, <<>>)

Count(seq, w) == Cardinality({i \in 1..Len(seq) : seq[i] = w})
Min(a, b) == IF a <= b THEN a ELSE b

RECURSIVE SumOver(_, _, _)
SumOver(ws, ref, hyp) ==
    IF ws = {} THEN 0
    ELSE LET w == CHOOSE x \in ws : TRUE IN
         Min(Count(hyp, w), Count(ref, w)) + SumOver(ws \ {w}, ref, hyp)

\* the clipped unigram matches of hyp against ref
ClippedMatches(ref, hyp) ==
    SumOver({hyp[i] : i \in 1..Len(hyp)}, ref, hyp)

\* eval.py 65-66: sentence_bleu([reference], hypothesis, method4).  The score
\* is 0 when no unigram of the hypothesis is in the reference (an empty
\* hypothesis included) and positive otherwise; the positive score is
\* represented by the number of clipped unigram matches.
SentenceBleu(ref, hyp) ==
    IF ClippedMatches(ref, hyp) = 0 THEN 0 ELSE ClippedMatches(ref, hyp)

\* what the endpoint may answer to requests.post
NetErr == [kind |-> "neterr"]
Http(status, body) == [kind |-> "http", status |-> status, body |-> body]
NotJson == [json |-> "invalid"]
JsonList == [json |-> "list"]
JsonObject(o) == [json |-> "object", obj |-> o]

\* a JSON key left out, or present with one of vals
Field(k, vals) == {<<>>} \cup {k :> v : v \in vals}

AnswerValues == {Str(EmptyText), Str(TextAB), Str(TextC), None}
LatencyValues == {Num(1)}

Objects ==
    {a @@ l : a \in Field("answer", AnswerValues),
              l \in Field("latency", LatencyValues)}

\* a 200 response as the Query Service builds it: answer text, latency number
WellFormedBodies ==
    {JsonObject(o) : o \in {x \in Objects :
        Has(x, "answer") /\ IsStr(x.answer) /\ Has(x, "latency")}}

Unreachable == {NetErr, Http(422, NotJson), Http(500, NotJson)}

Outcomes ==
    Unreachable
        \cup {Http(200, NotJson), Http(200, JsonList)}
        \cup {Http(200, JsonObject(o)) : o \in Objects}

WellFormedOutcomes ==
    Unreachable \cup {Http(200, b) : b \in WellFormedBodies}

\* eval.py 61
FailureRecord(chunk_size) ==
    [chunk_size |-> chunk_size, latency |-> None, bleu |-> 0,
     answer |-> Str(EmptyText)]

\* variant: dict.get(key), the default left out
DataGetNoDefault(d, key, default) == IF Has(d, key) THEN d[key] ELSE None

\* dict.get(key, default), eval.py 63-64
DataGet(d, key, default) == IF Has(d, key) THEN d[key] ELSE default

Return(v) == [ret |-> v]
Raise(e) == [raised |-> e]

\* eval.py 55-60: requests.post, raise_for_status or resp.json raise
RequestFailed(o) ==
    \/ o.kind = "neterr"
    \/ o.status >= 400
    \/ o.body.json = "invalid"

\* eval.py 42-73, given what the endpoint answered
Evaluate(tq, chunk_size, o) ==
    IF RequestFailed(o) THEN Return(FailureRecord(chunk_size))
    ELSE IF o.body.json # "object" THEN Raise("AttributeError")
    ELSE LET latency == DataGet(o.body.obj, "latency", None)
             answer == DataGet(o.body.obj, "answer", Str(EmptyText))
         IN  IF ~IsStr(answer) THEN Raise("AttributeError")
             ELSE Return(
                [chunk_size |-> chunk_size, latency |-> latency,
                 bleu |-> SentenceBleu(Split(tq.expected), Split(answer.str)),
                 answer |-> answer])

\* variant: every record tagged with the first query's question
TaggedFirst(res, tq) == res @@ [question |-> TEST_QUERIES[1].question]

\* eval.py 88
Tagged(res, tq) == res @@ [question |-> tq.question]

\* the service is not part of a harness run
ServiceOff ==
    /\ env = [OPENAI_API_KEY |-> "sk-key"]
    /\ dirState = "ok"
    /\ phase = "loading"
    /\ settings = NoSettings
    /\ clock = 0
    /\ slot = [r \in Requests |-> Idle]

HarnessInit ==
    /\ ServiceOff
    /\ hpc = "loop"
    /\ ci = 1
    /\ qi = 1
    /\ results = <<>>
    /\ inFlight = 0
    /\ issued = <<>>
    /\ lastResp = [kind |-> "none"]
    /\ outFile = [written |-> FALSE]

\* eval.py 80-83 and 56: the loops pick the next pair and the call is sent
Post ==
    /\ hpc = "loop"
    /\ ci <= Len(ChunkSizeSweep)
    /\ hpc' = "calling"
    /\ inFlight' = inFlight + 1
    /\ issued' = Append(issued, <<ChunkSizeSweep[ci], TEST_QUERIES[qi].question>>)
    /\ UNCHANGED <<ci, qi, results, lastResp, outFile>>
    /\ UNCHANGED svars

\* eval.py 56-73 and 83-88: the call returns, evaluate returns or raises,
\* main appends the record and the loops advance
CallReturn(o) ==
    /\ hpc = "calling"
    /\ inFlight' = inFlight - 1
    /\ lastResp' = o
    /\ LET tq == TEST_QUERIES[qi]
           res == Evaluate(tq, ChunkSizeSweep[ci], o)
       IN  IF Has(res, "raised")
           THEN /\ hpc' = "crashed"
                /\ UNCHANGED <<ci, qi, results>>
           ELSE /\ results' = Append(results, Tagged(res.ret, tq))
                /\ hpc' = "loop"
                /\ IF qi < Len(TEST_QUERIES)
                   THEN qi' = qi + 1 /\ ci' = ci
                   ELSE qi' = 1 /\ ci' = ci + 1
    /\ UNCHANGED <<issued, outFile>>
    /\ UNCHANGED svars

\* eval.py 91-95: the sweep is over, the file is written
WriteOk ==
    /\ hpc = "loop"
    /\ ci > Len(ChunkSizeSweep)
    /\ outFile' = [written |-> TRUE, content |-> results]
    /\ hpc' = "done"
    /\ UNCHANGED <<ci, qi, results, inFlight, issued, lastResp>>
    /\ UNCHANGED svars

\* eval.py 93: open() raises
WriteFail ==
    /\ hpc = "loop"
    /\ ci > Len(ChunkSizeSweep)
    /\ hpc' = "write_failed"
    /\ UNCHANGED <<ci, qi, results, inFlight, issued, lastResp, outFile>>
    /\ UNCHANGED svars

HarnessNext ==
    \/ Post
    \/ \E o \in Outcomes : CallReturn(o)
    \/ WriteOk
    \/ WriteFail

HarnessSpec == HarnessInit /\ [][HarnessNext]_vars

\* the run in which every call succeeds with a well-formed body, is
\* unreachable or returns a non-success status; the script runs on until it
\* ends
SweepNext ==
    \/ Post
    \/ \E o \in WellFormedOutcomes : CallReturn(o)
    \/ WriteOk
    \/ WriteFail

SweepSpec == HarnessInit /\ [][SweepNext]_vars /\ WF_vars(SweepNext)

-----------------------------------------------------------------------------
(* Properties of the evaluation harness *)

\* the pairs in nested-loop order: outer chunk size, inner query
NestedOrder ==
    [k \in 1..(Len(ChunkSizeSweep) * Len(TEST_QUERIES)) |->
        <<ChunkSizeSweep[((k - 1) \div Len(TEST_QUERIES)) + 1],
          TEST_QUERIES[((k - 1) % Len(TEST_QUERIES)) + 1].question>>]

IsPrefix(a, b) == Len(a) <= Len(b) /\ \A k \in 1..Len(a) : a[k] = b[k]

\* the last call has returned and has been dealt with
Settled == lastResp.kind # "none" /\ hpc # "calling"

RunOver == hpc \in {"done", "write_failed", "crashed"}

\* the record of a failed call for pair p
ZeroQuality(rec, p) ==
    /\ rec.latency = None
    /\ rec.bleu = 0
    /\ rec.answer = Str(<<>>)
    /\ rec.chunk_size = p[1]
    /\ rec.question = p[2]

\* a call that failed: network error, non-success status, or a malformed
\* body (not JSON, JSON that is no object, an answer that is not text)
CallFailed(o) ==
    \/ o.kind = "neterr"
    \/ o.status \notin 200..299
    \/ o.body.json # "object"
    \/ Has(o.body.obj, "answer") /\ ~Has(o.body.obj.answer, "str")

\* C3: a call that fails for any reason leaves the zero-quality record of
\* its pair and the sweep goes on; the run never aborts on a call, only on
\* the write of the output file.
C3_CallFailureNeverAborts ==
    /\ hpc # "crashed"
    /\ (Settled /\ CallFailed(lastResp)) =>
          /\ Len(results) = Len(issued)
          /\ ZeroQuality(results[Len(results)], issued[Len(issued)])

\* C4: when every call succeeds with a well-formed body, is unreachable or
\* returns a non-success status, the run ends, and the file it writes holds
\* one record per pair, 6 in all, in nested-loop order, each tagged with its
\* pair; the record of an unreachable call is zero-quality.
C4_OneRecordPerPairInOrder ==
    /\ [](outFile.written =>
            /\ hpc = "done"
            /\ Len(outFile.content) = 6
            /\ Len(outFile.content) = Len(ChunkSizeSweep) * Len(TEST_QUERIES)
            /\ \A k \in 1..Len(outFile.content) :
                  <<outFile.content[k].chunk_size, outFile.content[k].question>>
                      = NestedOrder[k])
    /\ []((Settled /\ lastResp \in Unreachable) =>
            /\ Len(results) = Len(issued)
            /\ ZeroQuality(results[Len(results)], issued[Len(issued)]))
    /\ <>(hpc \in {"done", "write_failed"})

C4_Witness ==
    /\ outFile.written
    /\ lastResp \in Unreachable
    /\ \A k \in 1..Len(outFile.content) :
          ZeroQuality(outFile.content[k], NestedOrder[k])

\* a successful call whose body is an object with a text answer or none
Succeeded(o) ==
    /\ o.kind = "http"
    /\ o.status = 200
    /\ o.body.json = "object"
    /\ Has(o.body.obj, "answer") => Has(o.body.obj.answer, "str")

\* C8: after a successful call the record carries the body's answer, "" when
\* the body has none, and the body's latency, null when it has none; with an
\* empty or missing answer the bleu is 0, nothing is raised, the record of
\* the pair is appended and the sweep goes on.
C8_MissingFieldsDefaultAndScore ==
    (Settled /\ Succeeded(lastResp)) =>
        LET obj == lastResp.body.obj
            rec == results[Len(results)]
            p == issued[Len(issued)]
        IN  /\ hpc \in {"loop", "done", "write_failed"}
            /\ Len(results) = Len(issued)
            /\ rec.chunk_size = p[1] /\ rec.question = p[2]
            /\ rec.answer = IF Has(obj, "answer") THEN obj.answer ELSE Str(<<>>)
            /\ rec.latency = IF Has(obj, "latency") THEN obj.latency ELSE None
            /\ rec.answer = Str(<<>>) => rec.bleu = 0

C8_Witness ==
    /\ Settled
    /\ lastResp = Http(200, JsonObject(<<>>))
    /\ hpc = "loop"
    /\ Len(results) = 2
    /\ results[2].answer = Str(<<>>) /\ results[2].bleu = 0

\* C9: at most one call is outstanding; a call is sent only after the record
\* of the previous pair is appended; calls go out in nested-loop order, no
\* pair twice; and when the run is over every pair has been called once.
C9_SequentialEachPairOnce ==
    /\ inFlight <= 1
    /\ inFlight = 1 <=> hpc = "calling"
    /\ inFlight = 1 => Len(issued) = Len(results) + 1
    /\ IsPrefix(issued, NestedOrder)
    /\ \A j, k \in 1..Len(issued) : issued[j] = issued[k] => j = k
    /\ RunOver => issued = NestedOrder

=============================================================================
